---- MODULE Spec2Model ----
(***************************************************************************)
(* arrow-buoys: the go-ingest parser, atomic Parquet writer and ingest     *)
(* loop, and the go-source /stream handler, as a state machine.            *)
(*                                                                         *)
(* Text is a sequence of one-character strings.  A document body is the    *)
(* sequence of lines bufio.Reader.ReadLine hands out (lines shorter than   *)
(* the 4096-byte reader buffer).                                           *)
(***************************************************************************)
EXTENDS Integers, Sequences, FiniteSets, TLC

(***************************************************************************)
(* Bounds of the model.                                                    *)
(***************************************************************************)
MaxLines == 3
MaxCycles == 2
MaxRequests == 1
FracDigits == 3

(***************************************************************************)
(* strings package                                                         *)
(***************************************************************************)
LowerLetters == <<"a","b","c","d","e","f","g","h","i","j","k","l","m",
                  "n","o","p","q","r","s","t","u","v","w","x","y","z">>
UpperLetters == <<"A","B","C","D","E","F","G","H","I","J","K","L","M",
                  "N","O","P","Q","R","S","T","U","V","W","X","Y","Z">>
DigitChars == <<"0","1","2","3","4","5","6","7","8","9">>

IsSpace(c) == c \in {" ", "\t"}

RECURSIVE IndexIn(_, _, _)
IndexIn(alphabet, c, i) ==
  IF i > Len(alphabet) THEN 0
  ELSE IF alphabet[i] = c THEN i
  ELSE IndexIn(alphabet, c, i + 1)

UpperChar(c) ==
  LET i == IndexIn(LowerLetters, c, 1)
  IN IF i > 0 THEN UpperLetters[i] ELSE c

\* <<F(s[1]), ..., F(s[n])>>
RECURSIVE MapSeq(_, _)
MapSeq(F(_), s) == IF s = <<>> THEN <<>> ELSE <<F(s[1])>> \o MapSeq(F, Tail(s))

ToUpper(s) == MapSeq(UpperChar, s)

HasPrefix(s, p) == Len(s) >= Len(p) /\ SubSeq(s, 1, Len(p)) = p

HasSuffix(s, p) == Len(s) >= Len(p) /\ SubSeq(s, Len(s) - Len(p) + 1, Len(s)) = p

TrimPrefix(s, p) == IF HasPrefix(s, p) THEN SubSeq(s, Len(p) + 1, Len(s)) ELSE s

\* Index of the first non-space character at or after i (Len(s)+1 if none).
SkipSpaces(s, i) ==
  CHOOSE j \in i..(Len(s) + 1) :
    /\ j = Len(s) + 1 \/ ~IsSpace(s[j])
    /\ \A k \in i..(j - 1) : IsSpace(s[k])

\* Index of the last non-space character at or before j (0 if none).
RECURSIVE SkipSpacesBack(_, _)
SkipSpacesBack(s, j) == IF j >= 1 /\ IsSpace(s[j]) THEN SkipSpacesBack(s, j - 1) ELSE j

TrimSpace(s) == SubSeq(s, SkipSpaces(s, 1), SkipSpacesBack(s, Len(s)))

\* Index just past the run of non-space characters starting at i.
WordEnd(s, i) ==
  CHOOSE j \in i..(Len(s) + 1) :
    /\ j = Len(s) + 1 \/ IsSpace(s[j])
    /\ \A k \in i..(j - 1) : ~IsSpace(s[k])

\* strings.Fields: the maximal runs of non-space characters, in order.
RECURSIVE FieldsFrom(_, _)
FieldsFrom(s, i) ==
  LET b == SkipSpaces(s, i)
  IN IF b > Len(s) THEN <<>>
     ELSE <<SubSeq(s, b, WordEnd(s, b) - 1)>> \o FieldsFrom(s, WordEnd(s, b))

Fields(s) == FieldsFrom(s, 1)

(***************************************************************************)
(* strconv package.  A 64-bit magnitude is four 16-bit limbs, least        *)
(* significant first, so that int64 range and the int32 conversion keep    *)
(* their widths.                                                           *)
(***************************************************************************)
LimbBase == 65536
HalfLimb == LimbBase \div 2

IsDigit(c) == \E i \in 1..10 : DigitChars[i] = c
DigitVal(c) == (CHOOSE i \in 1..10 : DigitChars[i] = c) - 1

AllDigits(s) == \A i \in 1..Len(s) : IsDigit(s[i])

ZeroLimbs == <<0, 0, 0, 0>>

\* acc*10 + d on limbs; ovf records a carry out of bit 63.
MulAdd(a, d) ==
  LET t1 == a.l[1] * 10 + d
      t2 == a.l[2] * 10 + (t1 \div LimbBase)
      t3 == a.l[3] * 10 + (t2 \div LimbBase)
      t4 == a.l[4] * 10 + (t3 \div LimbBase)
  IN [l |-> <<t1 % LimbBase, t2 % LimbBase, t3 % LimbBase, t4 % LimbBase>>,
      ovf |-> a.ovf \/ (t4 \div LimbBase) > 0]

RECURSIVE ParseUint(_, _)
ParseUint(s, a) == IF s = <<>> THEN a ELSE ParseUint(Tail(s), MulAdd(a, DigitVal(s[1])))

\* strconv.ParseInt(s, 10, 64): kind is "ok", "syntax" or "range".
ParseInt(s) ==
  LET neg == s # <<>> /\ s[1] = "-"
      body == IF s # <<>> /\ s[1] \in {"+", "-"} THEN Tail(s) ELSE s
  IN IF body = <<>> \/ ~AllDigits(body)
     THEN [kind |-> "syntax", neg |-> FALSE, l |-> ZeroLimbs]
     ELSE LET u == ParseUint(body, [l |-> ZeroLimbs, ovf |-> FALSE])
              fits == ~u.ovf /\ (u.l[4] < HalfLimb
                                 \/ (neg /\ u.l = <<0, 0, 0, HalfLimb>>))
          IN IF fits THEN [kind |-> "ok", neg |-> neg, l |-> u.l]
             ELSE [kind |-> "range", neg |-> neg, l |-> u.l]

\* v == n for a small non-negative n.
IntEquals(r, n) == r.kind = "ok" /\ r.l = <<n, 0, 0, 0>> /\ (~r.neg \/ n = 0)

\* int32(v): the low 32 bits of the two's complement value, read as signed.
Int32Of(r) ==
  LET lo == IF r.l[2] >= HalfLimb
            THEN (r.l[2] - LimbBase) * LimbBase + r.l[1]
            ELSE r.l[2] * LimbBase + r.l[1]
  IN IF r.neg /\ ~(r.l[2] = HalfLimb /\ r.l[1] = 0) THEN 0 - lo ELSE lo

\* strconv.Atoi with the error dropped: 0 on a syntax error.  Calendar
\* tokens stay below 2^31.
Atoi(s) ==
  LET r == ParseInt(s)
  IN IF r.kind = "syntax" THEN 0 ELSE Int32Of(r)

\* Real values are carried as integers scaled by 10^FracDigits.
RECURSIVE Pow10(_)
Pow10(n) == IF n = 0 THEN 1 ELSE 10 * Pow10(n - 1)

FracScale == Pow10(FracDigits)

RECURSIVE DecValue(_, _)
DecValue(s, a) == IF s = <<>> THEN a ELSE DecValue(Tail(s), a * 10 + DigitVal(s[1]))

RECURSIVE PadRight(_, _)
PadRight(s, n) == IF Len(s) >= n THEN s ELSE PadRight(Append(s, "0"), n)

DotAt(s) == IF \E i \in 1..Len(s) : s[i] = "."
            THEN CHOOSE i \in 1..Len(s) : s[i] = "." /\ \A j \in 1..(i - 1) : s[j] # "."
            ELSE 0

\* strconv.ParseFloat(s, 64) on plain decimal tokens ([sign] digits [. digits])
\* with at most FracDigits fractional digits.
ParseFloat(s) ==
  LET neg == s # <<>> /\ s[1] = "-"
      body == IF s # <<>> /\ s[1] \in {"+", "-"} THEN Tail(s) ELSE s
      d == DotAt(body)
      ip == IF d = 0 THEN body ELSE SubSeq(body, 1, d - 1)
      fp == IF d = 0 THEN <<>> ELSE SubSeq(body, d + 1, Len(body))
      okSyn == AllDigits(ip) /\ AllDigits(fp) /\ (ip # <<>> \/ fp # <<>>)
                /\ Len(fp) <= FracDigits
  IN IF ~okSyn THEN [err |-> TRUE, v |-> 0]
     ELSE LET m == DecValue(ip, 0) * FracScale + DecValue(PadRight(fp, FracDigits), 0)
          IN [err |-> FALSE, v |-> IF neg THEN 0 - m ELSE m]

(***************************************************************************)
(* Optional scalars: the pointer fields of MetRow                          *)
(***************************************************************************)
Nil == [nil |-> TRUE, v |-> 0]
Ptr(x) == [nil |-> FALSE, v |-> x]

atoiP(s) ==
  IF s = <<>> THEN Nil
  ELSE LET r == ParseInt(s)
       IN IF r.kind # "ok" \/ IntEquals(r, 99) \/ IntEquals(r, 999) \/ IntEquals(r, 9999)
          THEN Nil
          ELSE Ptr(Int32Of(r))

atofP(s) ==
  IF s = <<>> THEN Nil
  ELSE LET r == ParseFloat(s)
       IN IF r.err \/ r.v = 99 * FracScale \/ r.v = 999 * FracScale
             \/ r.v = 9999 * FracScale
          THEN Nil
          ELSE Ptr(r.v)

(***************************************************************************)
(* time.Date(...).Unix(), kept as (day since 1970-01-01, second of day):   *)
(* Unix() = day * 86400 + sec.                                             *)
(***************************************************************************)
LeapsThrough(y) == (y \div 4) - (y \div 100) + (y \div 400)
IsLeap(y) == y % 4 = 0 /\ (y % 100 # 0 \/ y % 400 = 0)
DaysSinceEpoch(y) == 365 * (y - 1970) + LeapsThrough(y - 1) - LeapsThrough(1969)
DaysBefore == <<0, 31, 59, 90, 120, 151, 181, 212, 243, 273, 304, 334>>

DateUnix(year, month, day, hour, minute) ==
  LET m0 == month - 1
      y == year + (m0 \div 12)
      m == (m0 % 12) + 1
      d == DaysSinceEpoch(y) + DaysBefore[m]
           + (IF IsLeap(y) /\ m > 2 THEN 1 ELSE 0) + (day - 1)
      s == hour * 3600 + minute * 60
  IN [day |-> d + (s \div 86400), sec |-> s % 86400]

(***************************************************************************)
(* Column names used by parseNdbcStdMet                                    *)
(***************************************************************************)
kYYYY == <<"Y","Y","Y","Y">>
kYY == <<"Y","Y">>
kMM == <<"M","M">>
kDD == <<"D","D">>
kHH == <<"H","H">>
khh == <<"h","h">>
kmm == <<"m","m">>
kWDIR == <<"W","D","I","R">>
kWSPD == <<"W","S","P","D">>
kGST == <<"G","S","T">>
kWVHT == <<"W","V","H","T">>
kDPD == <<"D","P","D">>
kAPD == <<"A","P","D">>
kMWD == <<"M","W","D">>
kPRES == <<"P","R","E","S">>
kPTDY == <<"P","T","D","Y">>
kATMP == <<"A","T","M","P">>
kWTMP == <<"W","T","M","P">>
kDEWP == <<"D","E","W","P">>
kVIS == <<"V","I","S">>
kTIDE == <<"T","I","D","E">>

\* Fallback header if not found in file.
DefaultHeader == <<kYYYY, kMM, kDD, khh, kmm, kWDIR, kWSPD, kGST, kWVHT, kDPD,
                   kAPD, kMWD, kPRES, kPTDY, kATMP, kWTMP, kDEWP, kVIS, kTIDE>>

(***************************************************************************)
(* parseNdbcStdMet                                                         *)
(***************************************************************************)
Hash == <<"#">>

IsComment(line) == HasPrefix(line, Hash)

CommentText(line) == TrimSpace(TrimPrefix(line, Hash))

IsHeaderText(trim) == HasPrefix(trim, <<"Y","Y">>) \/ HasPrefix(trim, <<"Y","Y","Y","Y">>)

\* The assignment header = strings.Fields(trim), executed for every
\* qualifying comment line.
AssignHeader(header, trim) == Fields(trim)

MinCols == 5

\* bufio.NewReader gives the reader a buffer of 4096 bytes.  r.ReadLine()
\* returns at most one buffer of a line at a time, the rest of the line on
\* the following calls (isPrefix, which the loop drops): the pieces of one
\* line of a newline-terminated document, in order.
ReadBuf == 4096

RECURSIVE ReadLine(_)
ReadLine(line) ==
  IF Len(line) < ReadBuf THEN <<line>>
  ELSE <<SubSeq(line, 1, ReadBuf)>> \o ReadLine(SubSeq(line, ReadBuf + 1, Len(line)))

\* What the successive r.ReadLine() calls return until io.EOF.
RECURSIVE ReadLines(_)
ReadLines(body) ==
  IF body = <<>> THEN <<>> ELSE ReadLine(body[1]) \o ReadLines(Tail(body))

\* The read loop: header is <<>> while still nil.
RECURSIVE ScanLines(_, _, _)
ScanLines(body, header, data) ==
  IF body = <<>> THEN [header |-> header, data |-> data]
  ELSE LET line == body[1]
           rest == Tail(body)
       IN IF IsComment(line)
          THEN IF IsHeaderText(CommentText(line))
               THEN ScanLines(rest, AssignHeader(header, CommentText(line)), data)
               ELSE ScanLines(rest, header, data)
          ELSE IF TrimSpace(line) = <<>>
               THEN ScanLines(rest, header, data)
               ELSE IF Len(Fields(line)) >= MinCols
                    THEN ScanLines(rest, header, Append(data, Fields(line)))
                    ELSE ScanLines(rest, header, data)

ResolveHeader(h) == IF h = <<>> THEN DefaultHeader ELSE h

\* idx[strings.ToUpper(h)] = i for the header names in order.  The map is
\* kept as the list of upper-cased names; a name's index is its last
\* position in it, as a later assignment replaces an earlier one.
BuildIdx(header) == MapSeq(ToUpper, header)

RECURSIVE LastIndex(_, _, _)
LastIndex(idx, K, i) ==
  IF i = 0 THEN 0
  ELSE IF idx[i] = K THEN i
  ELSE LastIndex(idx, K, i - 1)

get(cols, idx, key) ==
  LET i == LastIndex(idx, ToUpper(key), Len(idx))
  IN IF i > 0 /\ i <= Len(cols) THEN cols[i] ELSE <<>>

Truncate(data, maxRows) ==
  IF maxRows > 0 /\ Len(data) > maxRows THEN SubSeq(data, 1, maxRows) ELSE data

\* Variant: the 2000 offset is forgotten.
YearOfNoOffset(yy) == Atoi(yy)

YearOf(yy) == IF Len(yy) = 2 THEN Atoi(yy) + 2000 ELSE Atoi(yy)

RowTime(cols, idx) ==
  LET y4 == get(cols, idx, kYYYY)
      yy == IF y4 = <<>> THEN get(cols, idx, kYY) ELSE y4
      mo == get(cols, idx, kMM)
      dd == get(cols, idx, kDD)
      h1 == get(cols, idx, kHH)
      hr == IF h1 = <<>> THEN get(cols, idx, khh) ELSE h1
      mn == get(cols, idx, kmm)
  IN DateUnix(YearOf(yy), Atoi(mo), Atoi(dd), Atoi(hr), Atoi(mn))

MetRow(station, cols, idx) ==
  [StationID |-> ToUpper(station),
   Time      |-> RowTime(cols, idx),
   WDIRDeg   |-> atoiP(get(cols, idx, kWDIR)),
   WSPDmS    |-> atofP(get(cols, idx, kWSPD)),
   GUSTmS    |-> atofP(get(cols, idx, kGST)),
   PREShPa   |-> atofP(get(cols, idx, kPRES)),
   ATMPC     |-> atofP(get(cols, idx, kATMP)),
   WTMPC     |-> atofP(get(cols, idx, kWTMP)),
   DEWPC     |-> atofP(get(cols, idx, kDEWP))]

\* The loop over the retained rows.
RECURSIVE NormalizeRows(_, _, _)
NormalizeRows(station, idx, data) ==
  IF data = <<>> THEN <<>>
  ELSE <<MetRow(station, data[1], idx)>> \o NormalizeRows(station, idx, Tail(data))

parseNdbcStdMet(station, body, maxRows) ==
  LET sc == ScanLines(ReadLines(body), <<>>, <<>>)
  IN NormalizeRows(station, BuildIdx(ResolveHeader(sc.header)),
                   Truncate(sc.data, maxRows))

(***************************************************************************)
(* Input texts: lines an NDBC realtime2 document is made of.               *)
(***************************************************************************)
\* #YYYY MM DD hh mm WDIR WSPD GST PRES ATMP WTMP DEWP
HdrYYYY ==
  <<"#","Y","Y","Y","Y"," ","M","M"," ","D","D"," ","h","h"," ","m","m"," ",
    "W","D","I","R"," ","W","S","P","D"," ","G","S","T"," ","P","R","E","S",
    " ","A","T","M","P"," ","W","T","M","P"," ","D","E","W","P">>
\* #YY MM DD hh mm WDIR GST WSPD
HdrYY ==
  <<"#","Y","Y"," ","M","M"," ","D","D"," ","h","h"," ","m","m"," ","W","D",
    "I","R"," ","G","S","T"," ","W","S","P","D">>
\* #yr mo dy hr mn degT m/s
UnitsLine ==
  <<"#","y","r"," ","m","o"," ","d","y"," ","h","r"," ","m","n"," ","d","e",
    "g","T"," ","m","/","s">>
BlankLine == <<" ", " ">>
\* 2024 03 15
ShortRow ==
  <<"2","0","2","4"," ","0","3"," ","1","5">>
\* 2024 03 15 12 00 180 5.1 6.2 1013.2 99 21.3 99
RowA ==
  <<"2","0","2","4"," ","0","3"," ","1","5"," ","1","2"," ","0","0"," ","1",
    "8","0"," ","5",".","1"," ","6",".","2"," ","1","0","1","3",".","2"," ",
    "9","9"," ","2","1",".","3"," ","9","9">>
\* 24 11 30 23 50 4294967395 99.0 MM 9999 999 -1.5 999.0
RowB ==
  <<"2","4"," ","1","1"," ","3","0"," ","2","3"," ","5","0"," ","4","2","9",
    "4","9","6","7","3","9","5"," ","9","9",".","0"," ","M","M"," ","9","9",
    "9","9"," ","9","9","9"," ","-","1",".","5"," ","9","9","9",".","0">>

\* 2024 03 15 12 00
HeadRow ==
  <<"2","0","2","4"," ","0","3"," ","1","5"," ","1","2"," ","0","0">>
\* 2024 03 16 12 00 180
TailRow ==
  <<" ","2","0","2","4"," ","0","3"," ","1","6"," ","1","2"," ","0","0",
    " ","1","8","0">>
\* HeadRow, then tokens "MM..M" up to the 4096th character, then TailRow:
\* one line longer than the reader's buffer.
LongRow ==
  HeadRow \o [i \in 1..(ReadBuf - Len(HeadRow)) |->
                IF i % 512 = 1 THEN " " ELSE "M"]
          \o TailRow

LineSet == {HdrYYYY, HdrYY, UnitsLine, BlankLine, ShortRow, RowA, RowB}

RECURSIVE SeqsUpTo(_, _)
SeqsUpTo(S, n) ==
  IF n = 0 THEN {<<>>}
  ELSE LET shorter == SeqsUpTo(S, n - 1)
       IN shorter \cup {Append(q, x) : q \in shorter, x \in S}

\* Documents with the long line, alone, under a header and before a row.
LongBodies == {<<LongRow>>, <<HdrYYYY, LongRow>>, <<LongRow, RowB>>}

Bodies == SeqsUpTo(LineSet, MaxLines) \cup LongBodies
RowCaps == {0, 1, 48}

StationSANF1 == <<"s","a","n","f","1">>
StationKYWF1 == <<"K","Y","W","F","1">>

(***************************************************************************)
(* State                                                                   *)
(***************************************************************************)
VARIABLES
  \* parseNdbcStdMet called on its own
  station, body, maxRows, out, ppc,
  \* go-ingest: main, runOnce, fetchStation, writeParquet
  mins, stations, ipc, cycles, si, net, rows, wpath, wfd, log,
  \* the data directory
  dir, inodes,
  \* go-source: streamHandler, readParquet
  spc, reqs, started, matches, mi, rfd, all, status, resp, slog

parseVars == <<station, body, maxRows, out, ppc>>
ingestVars == <<mins, stations, ipc, cycles, si, net, rows, wpath, wfd, log>>
fsVars == <<dir, inodes>>
serverVars == <<spc, reqs, started, matches, mi, rfd, all, status, resp, slog>>
vars == <<parseVars, ingestVars, fsVars, serverVars>>

(***************************************************************************)
(* Configuration and environment of go-ingest                              *)
(***************************************************************************)
Comma == <<",">>
DefaultStations == <<"s","a","n","f","1",",","K","Y","W","F","1">>
StationsCSVs == {DefaultStations,
                 <<"K","Y","W","F","1",","," ",","," ","s","a","n","f","1">>}
RefreshConfigs == {0 - 1, 0, 1}
LatestSuffix == <<"_","l","a","t","e","s","t",".","p","a","r","q","u","e","t">>
TmpSuffix == <<".","t","m","p">>

\* strings.Split(s, ",")
RECURSIVE SplitFrom(_, _, _)
SplitFrom(s, cur, acc) ==
  IF s = <<>> THEN Append(acc, cur)
  ELSE IF <<s[1]>> = Comma THEN SplitFrom(Tail(s), <<>>, Append(acc, cur))
       ELSE SplitFrom(Tail(s), Append(cur, s[1]), acc)

Split(s) == SplitFrom(s, <<>>, <<>>)

StationLists == {Split(csv) : csv \in StationsCSVs}

\* out := filepath.Join(dataDir, strings.ToUpper(s)+"_latest.parquet"),
\* as a name inside dataDir.
PathOf(s) == ToUpper(s) \o LatestSuffix

\* Variant: the rows are written straight into the target file.
TmpPathInPlace(path) == path

TmpPath(path) == path \o TmpSuffix

StationNames ==
  UNION {{TrimSpace(l[i]) : i \in 1..Len(l)} : l \in StationLists} \ {<<>>}

\* What the NDBC server can answer for one station.
BodyA == <<HdrYYYY, UnitsLine, RowA>>
BodyB == <<HdrYYYY, RowB, RowA>>
BodyNone == <<HdrYYYY, UnitsLine, ShortRow>>
HttpOK == 200
FetchCap == 48

\* The documents the server answers with, by name.
ResponseBody == [A |-> BodyA, B |-> BodyB, none |-> BodyNone]

FetchOutcomes ==
  {[kind |-> "transport", code |-> 0, doc |-> "none"],
   [kind |-> "status", code |-> 500, doc |-> "none"],
   [kind |-> "readall", code |-> HttpOK, doc |-> "none"]}
  \cup {[kind |-> "ok", code |-> HttpOK, doc |-> k] : k \in DOMAIN ResponseBody}

NotAsked == [kind |-> "unasked", code |-> 0, doc |-> "none"]

fetchStation(s, o) ==
  IF o.kind = "transport" THEN [err |-> TRUE, rows |-> <<>>]
  ELSE IF o.code # HttpOK THEN [err |-> TRUE, rows |-> <<>>]
  ELSE IF o.kind = "readall" THEN [err |-> TRUE, rows |-> <<>>]
  ELSE [err |-> FALSE, rows |-> parseNdbcStdMet(s, ResponseBody[o.doc], FetchCap)]

(***************************************************************************)
(* The data directory: names bound to inodes; an open file keeps its       *)
(* inode whatever happens to the name.                                     *)
(***************************************************************************)
AllNames == {PathOf(s) : s \in StationNames} \cup {TmpPath(PathOf(s)) : s \in StationNames}
NoInode == 0
InodeIds == 1..(Cardinality(AllNames) + 2)
FreeInode == [rows |-> <<>>, complete |-> FALSE]

\* Inodes a name or an open file still refers to.
Referenced(d, r, w) == ({d[n] : n \in DOMAIN d} \cup {r, w}) \ {NoInode}

\* The lowest free inode number.
Fresh(d, ino, r, w) ==
  CHOOSE i \in DOMAIN ino \ Referenced(d, r, w) :
    \A j \in DOMAIN ino \ Referenced(d, r, w) : i <= j

\* An inode nothing refers to any more is reclaimed.
Collect(ino, d, r, w) ==
  [i \in DOMAIN ino |-> IF i \in Referenced(d, r, w) THEN ino[i] ELSE FreeInode]

\* os.Create: O_RDWR|O_CREATE|O_TRUNC.
Create(d, ino, name, r, w) ==
  IF d[name] # NoInode
  THEN [dir |-> d, inodes |-> [ino EXCEPT ![d[name]] = FreeInode], fd |-> d[name]]
  ELSE LET f == Fresh(d, ino, r, w)
       IN [dir |-> [d EXCEPT ![name] = f],
           inodes |-> [ino EXCEPT ![f] = FreeInode], fd |-> f]

Remove(d, name) == [d EXCEPT ![name] = NoInode]

\* Variant: the temporary file is never moved onto the target.
RenameDropped(d, old, new) == d

Rename(d, old, new) ==
  IF old = new THEN d ELSE [d EXCEPT ![new] = d[old], ![old] = NoInode]

\* filepath.Glob(filepath.Join(dataDir, "*_latest.parquet")): the names
\* the pattern matches, in lexical order.
CharOrder == <<".">> \o DigitChars \o UpperLetters \o <<"_">> \o LowerLetters
Rank(c) == CHOOSE i \in 1..Len(CharOrder) : CharOrder[i] = c

RECURSIVE LessStr(_, _)
LessStr(a, b) ==
  IF b = <<>> THEN FALSE
  ELSE IF a = <<>> THEN TRUE
  ELSE IF a[1] = b[1] THEN LessStr(Tail(a), Tail(b))
  ELSE Rank(a[1]) < Rank(b[1])

RECURSIVE SortNames(_)
SortNames(S) ==
  IF S = {} THEN <<>>
  ELSE LET m == CHOOSE x \in S : \A y \in S \ {x} : LessStr(x, y)
       IN <<m>> \o SortNames(S \ {m})

Match(name) == HasSuffix(name, LatestSuffix)

Glob(d) == SortNames({n \in DOMAIN d : d[n] # NoInode /\ Match(n)})

(***************************************************************************)
(* go-ingest: main, runOnce, writeParquet                                  *)
(***************************************************************************)
LogLine(lvl, what) == [lvl |-> lvl, what |-> what]

\* Variant: a failed station ends the cycle.
AfterFailureAbort(i, n) == n + 1

\* "continue" after a station failed: on to the next station.
AfterFailure(i, n) == i + 1

\* Variant: only a negative interval is one-shot.
OneShotStrict(m) == m < 0

\* if mins <= 0 { break }
OneShot(m) == m <= 0

CurStation == TrimSpace(stations[si])

\* runOnce entered; os.MkdirAll fails: the cycle is abandoned.
RunOnceMkdirFail ==
  /\ ipc = "main"
  /\ cycles' = cycles + 1
  /\ log' = <<LogLine("ERROR", <<"m","k","d","i","r">>)>>
  /\ net' = <<>>
  /\ si' = 0
  /\ ipc' = "cycle_done"
  /\ UNCHANGED <<mins, stations, rows, wpath, wfd>>
  /\ UNCHANGED <<parseVars, fsVars, serverVars>>

\* runOnce entered and os.MkdirAll succeeded.  net records, per list
\* position, what the network answered in this cycle.
RunOnceEnter ==
  /\ ipc = "main"
  /\ cycles' = cycles + 1
  /\ log' = <<>>
  /\ net' = [i \in 1..Len(stations) |-> NotAsked]
  /\ si' = 1
  /\ ipc' = "station"
  /\ UNCHANGED <<mins, stations, rows, wpath, wfd>>
  /\ UNCHANGED <<parseVars, fsVars, serverVars>>

LoopExit ==
  /\ ipc = "station"
  /\ si > Len(stations)
  /\ ipc' = "cycle_done"
  /\ UNCHANGED <<mins, stations, cycles, si, net, rows, wpath, wfd, log>>
  /\ UNCHANGED <<parseVars, fsVars, serverVars>>

SkipBlank ==
  /\ ipc = "station"
  /\ si <= Len(stations)
  /\ CurStation = <<>>
  /\ si' = si + 1
  /\ UNCHANGED <<mins, stations, ipc, cycles, net, rows, wpath, wfd, log>>
  /\ UNCHANGED <<parseVars, fsVars, serverVars>>

\* rows, err := fetchStation(ctx, s) and the two early "continue"s, or
\* the call of writeParquet(out, rows).
FetchStation ==
  /\ ipc = "station"
  /\ si <= Len(stations)
  /\ CurStation # <<>>
  /\ \E o \in FetchOutcomes :
       \E r \in {fetchStation(CurStation, o)} :
         /\ net' = [net EXCEPT ![si] = o]
         /\ IF r.err
            THEN /\ log' = Append(log, LogLine("WARN", CurStation))
                 /\ si' = AfterFailure(si, Len(stations))
                 /\ UNCHANGED <<ipc, rows, wpath>>
            ELSE IF Len(r.rows) = 0
            THEN /\ log' = Append(log, LogLine("INFO", CurStation))
                 /\ si' = si + 1
                 /\ UNCHANGED <<ipc, rows, wpath>>
            ELSE /\ rows' = r.rows
                 /\ wpath' = PathOf(CurStation)
                 /\ ipc' = "create"
                 /\ UNCHANGED <<si, log>>
  /\ UNCHANGED <<mins, stations, cycles, wfd>>
  /\ UNCHANGED <<parseVars, fsVars, serverVars>>

\* writeParquet returned err: log it, next station.
WriteFailed ==
  /\ log' = Append(log, LogLine("ERROR", CurStation))
  /\ si' = AfterFailure(si, Len(stations))
  /\ ipc' = "station"
  /\ rows' = <<>>
  /\ wpath' = <<>>

\* f, err := os.Create(tmp)
WCreate ==
  /\ ipc = "create"
  /\ \E ok \in BOOLEAN :
       IF ok
       THEN LET c == Create(dir, inodes, TmpPath(wpath), rfd, wfd)
            IN /\ dir' = c.dir
               /\ inodes' = c.inodes
               /\ wfd' = c.fd
               /\ ipc' = "write"
               /\ UNCHANGED <<si, rows, wpath, log>>
       ELSE /\ WriteFailed
            /\ UNCHANGED <<dir, inodes, wfd>>
  /\ UNCHANGED <<mins, stations, cycles, net>>
  /\ UNCHANGED <<parseVars, serverVars>>

\* f.Close(); os.Remove(tmp); return err
DiscardTmp ==
  /\ dir' = Remove(dir, TmpPath(wpath))
  /\ inodes' = Collect(inodes, Remove(dir, TmpPath(wpath)), rfd, NoInode)
  /\ wfd' = NoInode
  /\ WriteFailed

\* w.Write(rows): the row data reaches the file, the footer does not.
WWrite ==
  /\ ipc = "write"
  /\ \E ok \in BOOLEAN :
       IF ok
       THEN /\ inodes' = [inodes EXCEPT ![wfd] = [rows |-> rows, complete |-> FALSE]]
            /\ ipc' = "wclose"
            /\ UNCHANGED <<dir, wfd, si, rows, wpath, log>>
       ELSE DiscardTmp
  /\ UNCHANGED <<mins, stations, cycles, net>>
  /\ UNCHANGED <<parseVars, serverVars>>

\* w.Close(): the footer is written and the file becomes decodable.
WClose ==
  /\ ipc = "wclose"
  /\ \E ok \in BOOLEAN :
       IF ok
       THEN /\ inodes' = [inodes EXCEPT ![wfd].complete = TRUE]
            /\ ipc' = "fclose"
            /\ UNCHANGED <<dir, wfd, si, rows, wpath, log>>
       ELSE DiscardTmp
  /\ UNCHANGED <<mins, stations, cycles, net>>
  /\ UNCHANGED <<parseVars, serverVars>>

\* f.Close()
FClose ==
  /\ ipc = "fclose"
  /\ \E ok \in BOOLEAN :
       IF ok
       THEN /\ wfd' = NoInode
            /\ ipc' = "rename"
            /\ UNCHANGED <<dir, inodes, si, rows, wpath, log>>
       ELSE DiscardTmp
  /\ UNCHANGED <<mins, stations, cycles, net>>
  /\ UNCHANGED <<parseVars, serverVars>>

\* return os.Rename(tmp, path), and runOnce's handling of the result.
WRename ==
  /\ ipc = "rename"
  /\ \E ok \in BOOLEAN :
       IF ok
       THEN /\ dir' = Rename(dir, TmpPath(wpath), wpath)
            /\ inodes' = Collect(inodes, Rename(dir, TmpPath(wpath), wpath), rfd, wfd)
            /\ log' = Append(log, LogLine("WROTE", wpath))
            /\ si' = si + 1
            /\ ipc' = "station"
            /\ rows' = <<>>
            /\ wpath' = <<>>
       ELSE /\ WriteFailed
            /\ UNCHANGED <<dir, inodes>>
  /\ UNCHANGED <<mins, stations, cycles, net, wfd>>
  /\ UNCHANGED <<parseVars, serverVars>>

\* main after runOnce returned.
MainAfterCycle ==
  /\ ipc = "cycle_done"
  /\ ipc' = IF OneShot(mins) THEN "exited" ELSE "sleep"
  /\ net' = <<>>
  /\ si' = 0
  /\ UNCHANGED <<mins, stations, cycles, rows, wpath, wfd, log>>
  /\ UNCHANGED <<parseVars, fsVars, serverVars>>

\* time.Sleep returns and the loop comes round.
MainWake ==
  /\ ipc = "sleep"
  /\ cycles < MaxCycles
  /\ ipc' = "main"
  /\ UNCHANGED <<mins, stations, cycles, si, net, rows, wpath, wfd, log>>
  /\ UNCHANGED <<parseVars, fsVars, serverVars>>

IngestNext ==
  \/ RunOnceMkdirFail \/ RunOnceEnter \/ LoopExit \/ SkipBlank \/ FetchStation
  \/ WCreate \/ WWrite \/ WClose \/ FClose \/ WRename
  \/ MainAfterCycle \/ MainWake

(***************************************************************************)
(* go-source: rowsToRecord, readParquet, streamHandler                     *)
(***************************************************************************)
BufLen == 1024

\* One Arrow record: a column per schema field, nulls kept as nulls.
rowsToRecord(rs) ==
  [station_id |-> MapSeq(LAMBDA r : r.StationID, rs),
   time       |-> MapSeq(LAMBDA r : r.Time, rs),
   wdir_deg   |-> MapSeq(LAMBDA r : r.WDIRDeg, rs),
   wspd_ms    |-> MapSeq(LAMBDA r : r.WSPDmS, rs),
   gust_ms    |-> MapSeq(LAMBDA r : r.GUSTmS, rs),
   pres_hpa   |-> MapSeq(LAMBDA r : r.PREShPa, rs),
   atmp_c     |-> MapSeq(LAMBDA r : r.ATMPC, rs),
   wtmp_c     |-> MapSeq(LAMBDA r : r.WTMPC, rs),
   dewp_c     |-> MapSeq(LAMBDA r : r.DEWPC, rs),
   nrows      |-> Len(rs)]

NoRecord == rowsToRecord(<<>>)

\* Messages of the Arrow IPC stream.
SchemaMsg == [kind |-> "schema", rec |-> NoRecord]
BatchMsg(rec) == [kind |-> "batch", rec |-> rec]
EosMsg == [kind |-> "eos", rec |-> NoRecord]
ErrorText == [kind |-> "text", rec |-> NoRecord]

\* ipc.Writer emits the schema before its first message.
Started(b, st) == IF st THEN b ELSE Append(b, SchemaMsg)

\* wr.Write(rec) without error.
WriteBatch(b, st, rec) == Append(Started(b, st), BatchMsg(rec))

\* Variant: the handler returns without closing the writer.
DeferredMissing(b, st) == b

\* defer wr.Close(): runs on every return after the writer exists.
Deferred(b, st) == Append(Started(b, st), EosMsg)

\* Variant: a file that fails to decode ends the loop.
AfterDecodeErrorAbort(i, n) == n + 1

\* "continue" after readParquet failed: on to the next file.
AfterDecodeError(i, n) == i + 1

\* A request arrives; ipc.NewWriter succeeds or the handler answers 500.
StreamRequest ==
  /\ spc \in {"idle", "done"}
  /\ reqs < MaxRequests
  /\ reqs' = reqs + 1
  /\ started' = FALSE
  /\ matches' = <<>>
  /\ mi' = 0
  /\ slog' = <<>>
  /\ \E ok \in BOOLEAN :
       IF ok
       THEN /\ resp' = <<>>
            /\ status' = HttpOK
            /\ spc' = "glob"
       ELSE /\ resp' = <<ErrorText>>
            /\ status' = 500
            /\ spc' = "done"
  /\ UNCHANGED <<rfd, all>>
  /\ UNCHANGED <<parseVars, ingestVars, fsVars>>

\* matches, _ := filepath.Glob(...); no match: warn and return.
StreamGlob ==
  /\ spc = "glob"
  /\ matches' = Glob(dir)
  /\ IF Len(Glob(dir)) = 0
     THEN /\ slog' = Append(slog, LogLine("WARN", <<>>))
          /\ resp' = Deferred(resp, started)
          /\ started' = TRUE
          /\ spc' = "done"
          /\ mi' = 0
     ELSE /\ mi' = 1
          /\ spc' = "open"
          /\ UNCHANGED <<slog, resp, started>>
  /\ UNCHANGED <<reqs, rfd, all, status>>
  /\ UNCHANGED <<parseVars, ingestVars, fsVars>>

\* readParquet: os.Open(path).
ReadOpen ==
  /\ spc = "open"
  /\ mi <= Len(matches)
  /\ IF dir[matches[mi]] = NoInode
     THEN /\ slog' = Append(slog, LogLine("WARN", matches[mi]))
          /\ mi' = AfterDecodeError(mi, Len(matches))
          /\ UNCHANGED <<spc, rfd, all>>
     ELSE /\ rfd' = dir[matches[mi]]
          /\ all' = <<>>
          /\ spc' = "read"
          /\ UNCHANGED <<slog, mi>>
  /\ UNCHANGED <<reqs, started, matches, status, resp>>
  /\ UNCHANGED <<parseVars, ingestVars, fsVars>>

\* readParquet: one r.Read(buf).  A file without footer does not decode;
\* a read can also fail on its own.  The deferred f.Close() runs on return.
ReadChunk ==
  /\ spc = "read"
  /\ \E ioerr \in BOOLEAN :
       IF ioerr \/ ~inodes[rfd].complete \/ Len(all) > Len(inodes[rfd].rows)
       THEN /\ slog' = Append(slog, LogLine("WARN", matches[mi]))
            /\ mi' = AfterDecodeError(mi, Len(matches))
            /\ all' = <<>>
            /\ rfd' = NoInode
            /\ inodes' = Collect(inodes, dir, NoInode, wfd)
            /\ spc' = "open"
       ELSE LET have == Len(all)
                left == Len(inodes[rfd].rows) - have
                n == IF left < BufLen THEN left ELSE BufLen
            IN /\ all' = all \o SubSeq(inodes[rfd].rows, have + 1, have + n)
               /\ IF n = left
                  THEN /\ rfd' = NoInode
                       /\ inodes' = Collect(inodes, dir, NoInode, wfd)
                       /\ spc' = "emit"
                  ELSE UNCHANGED <<rfd, inodes, spc>>
               /\ UNCHANGED <<slog, mi>>
  /\ UNCHANGED <<reqs, started, matches, status, resp, dir>>
  /\ UNCHANGED <<parseVars, ingestVars>>

\* The rest of the loop body: skip an empty file, else build the record
\* and write it; a failed wr.Write is logged and emits nothing.
EmitBatch ==
  /\ spc = "emit"
  /\ IF Len(all) = 0
     THEN UNCHANGED <<resp, started, slog>>
     ELSE \E ok \in BOOLEAN :
            IF ok
            THEN /\ resp' = WriteBatch(resp, started, rowsToRecord(all))
                 /\ started' = TRUE
                 /\ slog' = Append(slog, LogLine("SENT", matches[mi]))
            ELSE /\ slog' = Append(Append(slog, LogLine("ERROR", matches[mi])),
                                   LogLine("SENT", matches[mi]))
                 /\ UNCHANGED <<resp, started>>
  /\ mi' = mi + 1
  /\ all' = <<>>
  /\ spc' = "open"
  /\ UNCHANGED <<reqs, matches, rfd, status>>
  /\ UNCHANGED <<parseVars, ingestVars, fsVars>>

\* The loop is over: the handler returns and the deferred Close runs.
StreamReturn ==
  /\ spc = "open"
  /\ mi > Len(matches)
  /\ resp' = Deferred(resp, started)
  /\ started' = TRUE
  /\ spc' = "done"
  /\ UNCHANGED <<reqs, matches, mi, rfd, all, status, slog>>
  /\ UNCHANGED <<parseVars, ingestVars, fsVars>>

ServerNext ==
  \/ StreamRequest \/ StreamGlob \/ ReadOpen \/ ReadChunk \/ EmitBatch
  \/ StreamReturn

(***************************************************************************)
(* Initial conditions                                                      *)
(***************************************************************************)
ParseIdle ==
  /\ station = <<>>
  /\ body = <<>>
  /\ maxRows = 0
  /\ out = <<>>
  /\ ppc = "idle"

ServerIdle ==
  /\ spc = "idle"
  /\ reqs = 0
  /\ started = FALSE
  /\ matches = <<>>
  /\ mi = 0
  /\ rfd = NoInode
  /\ all = <<>>
  /\ status = 0
  /\ resp = <<>>
  /\ slog = <<>>

\* The data directory is empty, or holds what an earlier run left.
EarlierFile == [rows |-> parseNdbcStdMet(StationSANF1, BodyA, FetchCap), complete |-> TRUE]

IngestStart ==
  /\ ipc = "main"
  /\ cycles = 0
  /\ si = 0
  /\ net = <<>>
  /\ rows = <<>>
  /\ wpath = <<>>
  /\ wfd = NoInode
  /\ log = <<>>

DataDirStart ==
  \E pre \in BOOLEAN :
    /\ dir = [n \in AllNames |->
                IF pre /\ n = PathOf(StationSANF1) THEN 1 ELSE NoInode]
    /\ inodes = [i \in InodeIds |->
                   IF pre /\ i = 1 THEN EarlierFile ELSE FreeInode]

(***************************************************************************)
(* go-ingest on its own: every configuration, no reader.                   *)
(***************************************************************************)
Init ==
  /\ ParseIdle
  /\ ServerIdle
  /\ mins \in RefreshConfigs
  /\ stations \in StationLists
  /\ IngestStart
  /\ DataDirStart

Next == IngestNext

Spec == Init /\ [][Next]_vars

(***************************************************************************)
(* go-ingest refreshing every minute while go-source serves /stream from   *)
(* the same directory.  The start is the pause before the last cycle: the  *)
(* earlier cycles have left SANF1's file and nothing for KYWF1, or nothing *)
(* at all, under either station list.                                      *)
(***************************************************************************)
EarlierLog(sl, pre) ==
  MapSeq(LAMBDA s : IF pre /\ PathOf(s) = PathOf(StationSANF1)
                      THEN LogLine("WROTE", PathOf(s))
                      ELSE LogLine("WARN", s),
         SelectSeq(MapSeq(TrimSpace, sl), LAMBDA s : s # <<>>))

StreamInit ==
  /\ ParseIdle
  /\ ServerIdle
  /\ mins = 1
  /\ stations \in StationLists
  /\ ipc = "sleep"
  /\ cycles = MaxCycles - 1
  /\ si = 0
  /\ net = <<>>
  /\ rows = <<>>
  /\ wpath = <<>>
  /\ wfd = NoInode
  /\ \E pre \in BOOLEAN :
       /\ dir = [n \in AllNames |->
                   IF pre /\ n = PathOf(StationSANF1) THEN 1 ELSE NoInode]
       /\ inodes = [i \in InodeIds |->
                      IF pre /\ i = 1 THEN EarlierFile ELSE FreeInode]
       /\ log = EarlierLog(stations, pre)

StreamNext == IngestNext \/ ServerNext

StreamSpec == StreamInit /\ [][StreamNext]_vars

(***************************************************************************)
(* parseNdbcStdMet on its own, over all small documents.                   *)
(***************************************************************************)
ParseInit ==
  /\ station \in {StationSANF1}
  /\ body \in Bodies
  /\ maxRows \in RowCaps
  /\ out = <<>>
  /\ ppc = "ready"
  /\ ServerIdle
  /\ mins = 0
  /\ stations = <<>>
  /\ ipc = "exited"
  /\ cycles = 0
  /\ si = 0
  /\ net = <<>>
  /\ rows = <<>>
  /\ wpath = <<>>
  /\ wfd = NoInode
  /\ log = <<>>
  /\ dir = [n \in AllNames |-> NoInode]
  /\ inodes = [i \in InodeIds |-> FreeInode]

ParseCall ==
  /\ ppc = "ready"
  /\ out' = parseNdbcStdMet(station, body, maxRows)
  /\ ppc' = "done"
  /\ UNCHANGED <<station, body, maxRows>>
  /\ UNCHANGED <<ingestVars, fsVars, serverVars>>

ParseNext == ParseCall

ParseSpec == ParseInit /\ [][ParseNext]_vars

(***************************************************************************)
(* Properties of parseNdbcStdMet (ParseSpec)                               *)
(***************************************************************************)

\* C1: under a header naming both "MM" and "mm", every record's timestamp
\* is composed from the tokens in the "MM", "DD", "hh" and "mm" columns
\* (0 seconds, UTC).
C1_TimestampFromNamedColumns ==
  ppc = "done" =>
    LET sc == ScanLines(ReadLines(body), <<>>, <<>>)
        header == ResolveHeader(sc.header)
        data == Truncate(sc.data, maxRows)
        Col(name) == IndexIn(header, name, 1)
        Tok(cols, name) ==
          IF Col(name) > 0 /\ Col(name) <= Len(cols) THEN cols[Col(name)] ELSE <<>>
        y4(cols) == get(cols, BuildIdx(header), kYYYY)
        yy(cols) == IF y4(cols) = <<>> THEN get(cols, BuildIdx(header), kYY)
                    ELSE y4(cols)
    IN (Col(kMM) > 0 /\ Col(kmm) > 0) =>
         /\ Len(out) = Len(data)
         /\ \A k \in 1..Len(out) :
              out[k].Time = DateUnix(YearOf(yy(data[k])),
                                     Atoi(Tok(data[k], kMM)),
                                     Atoi(Tok(data[k], kDD)),
                                     Atoi(Tok(data[k], khh)),
                                     Atoi(Tok(data[k], kmm)))

\* C2: every optional numeric field of every record is absent or a value
\* other than 99, 999, 9999; an empty, unparsable or sentinel token gives
\* an absent field.
C2_NoSentinelInRecords ==
  ppc = "done" =>
    LET sc == ScanLines(ReadLines(body), <<>>, <<>>)
        idx == BuildIdx(ResolveHeader(sc.header))
        data == Truncate(sc.data, maxRows)
        IntSentinels == {99, 999, 9999}
        RealSentinels == {99 * FracScale, 999 * FracScale, 9999 * FracScale}
        BadInt(t) == t = <<>> \/ ParseInt(t).kind # "ok"
                     \/ \E n \in IntSentinels : IntEquals(ParseInt(t), n)
        BadReal(t) == t = <<>> \/ ParseFloat(t).err
                      \/ ParseFloat(t).v \in RealSentinels
        Reals(r) == <<r.WSPDmS, r.GUSTmS, r.PREShPa, r.ATMPC, r.WTMPC, r.DEWPC>>
        RealCols == <<kWSPD, kGST, kPRES, kATMP, kWTMP, kDEWP>>
    IN \A k \in 1..Len(out) :
         /\ out[k].WDIRDeg.nil \/ out[k].WDIRDeg.v \notin IntSentinels
         /\ BadInt(get(data[k], idx, kWDIR)) => out[k].WDIRDeg.nil
         /\ \A j \in 1..6 :
              /\ Reals(out[k])[j].nil \/ Reals(out[k])[j].v \notin RealSentinels
              /\ BadReal(get(data[k], idx, RealCols[j])) => Reals(out[k])[j].nil

\* C9: with several "#YY..." comment lines the rows are read under the
\* first of them, and no comment line becomes a record.
C9_FirstHeaderLineWins ==
  ppc = "done" =>
    LET sc == ScanLines(ReadLines(body), <<>>, <<>>)
        data == Truncate(sc.data, maxRows)
        Qualifies(i) == IsComment(body[i]) /\ IsHeaderText(CommentText(body[i]))
        first == IF \E i \in 1..Len(body) : Qualifies(i)
                 THEN Fields(CommentText(body[
                        CHOOSE i \in 1..Len(body) :
                          Qualifies(i) /\ \A j \in 1..(i - 1) : ~Qualifies(j)]))
                 ELSE <<>>
    IN /\ out = NormalizeRows(station, BuildIdx(ResolveHeader(first)), data)
       /\ LET lines == ReadLines(body)
          IN Len(out) <= Cardinality({i \in 1..Len(lines) : ~IsComment(lines[i])})

\* C11: for a positive cap the output has one record per candidate row of
\* the document (a line that is no comment, is not blank and has at least 5
\* whitespace-separated tokens), min(cap, number of candidate rows) of
\* them, built from the first candidate rows in document order; shorter
\* lines give no record and do not count toward the cap.
C11_OneRecordPerCandidateRow ==
  (ppc = "done" /\ maxRows > 0) =>
    LET IsCandidate(line) == /\ ~IsComment(line)
                             /\ TrimSpace(line) # <<>>
                             /\ Len(Fields(line)) >= MinCols
        cand == SelectSeq(body, IsCandidate)
        idx == BuildIdx(ResolveHeader(ScanLines(ReadLines(body), <<>>, <<>>).header))
        n == IF maxRows < Len(cand) THEN maxRows ELSE Len(cand)
    IN /\ Len(out) = n
       /\ \A k \in 1..n : out[k] = MetRow(station, Fields(cand[k]), idx)

\* C12 as stated: the year of every record is the number in the "YYYY"
\* column, unchanged, when the header has a "YYYY" column, and otherwise the
\* number in the "YY" column plus 2000.
C12_YearByColumnName ==
  ppc = "done" =>
    LET sc == ScanLines(ReadLines(body), <<>>, <<>>)
        header == ResolveHeader(sc.header)
        idx == BuildIdx(header)
        data == Truncate(sc.data, maxRows)
        hasYYYY == \E i \in 1..Len(header) : ToUpper(header[i]) = kYYYY
        Year(cols) == IF hasYYYY THEN Atoi(get(cols, idx, kYYYY))
                      ELSE Atoi(get(cols, idx, kYY)) + 2000
        h1(cols) == get(cols, idx, kHH)
        Hour(cols) == IF h1(cols) = <<>> THEN get(cols, idx, khh) ELSE h1(cols)
    IN /\ Len(out) = Len(data)
       /\ \A k \in 1..Len(out) :
            out[k].Time = DateUnix(Year(data[k]),
                                   Atoi(get(data[k], idx, kMM)),
                                   Atoi(get(data[k], idx, kDD)),
                                   Atoi(Hour(data[k])),
                                   Atoi(get(data[k], idx, kmm)))

\* C12 as amended: the year token of a row is its token in the "YYYY"
\* column when the header has that column and the row reaches it, and
\* otherwise its token in the "YY" column; the year is the number in that
\* token, plus 2000 exactly when the token is two characters long,
\* whichever column it came from.
C12_YearOffsetByTokenLength ==
  ppc = "done" =>
    LET sc == ScanLines(ReadLines(body), <<>>, <<>>)
        header == ResolveHeader(sc.header)
        idx == BuildIdx(header)
        data == Truncate(sc.data, maxRows)
        Col(name) == IF \E i \in 1..Len(idx) : idx[i] = name
                     THEN CHOOSE i \in 1..Len(idx) :
                            /\ idx[i] = name
                            /\ \A j \in (i + 1)..Len(idx) : idx[j] # name
                     ELSE 0
        Tok(cols, name) == IF Col(name) > 0 /\ Col(name) <= Len(cols)
                           THEN cols[Col(name)] ELSE <<>>
        YearTok(cols) == IF Tok(cols, kYYYY) # <<>> THEN Tok(cols, kYYYY)
                         ELSE Tok(cols, kYY)
        Year(cols) == Atoi(YearTok(cols))
                        + (IF Len(YearTok(cols)) = 2 THEN 2000 ELSE 0)
        h1(cols) == get(cols, idx, kHH)
        Hour(cols) == IF h1(cols) = <<>> THEN get(cols, idx, khh) ELSE h1(cols)
    IN /\ Len(out) = Len(data)
       /\ \A k \in 1..Len(out) :
            out[k].Time = DateUnix(Year(data[k]),
                                   Atoi(get(data[k], idx, kMM)),
                                   Atoi(get(data[k], idx, kDD)),
                                   Atoi(Hour(data[k])),
                                   Atoi(get(data[k], idx, kmm)))

\* A two-character year under a "YYYY" header: "24 11 30 23 50 ..." came
\* out in the year 2024 (month 50 of 2024 is February 2028).
C12_Witness ==
  /\ ppc = "done"
  /\ body = <<HdrYYYY, RowB>>
  /\ Len(out) = 1
  /\ out[1].Time = DateUnix(2024, 50, 30, 23, 50)
  /\ out[1].Time.day = DaysSinceEpoch(2028) + 31 + 29

(***************************************************************************)
(* Properties of go-ingest (Spec)                                          *)
(***************************************************************************)

\* C4: when writeParquet returns an error the target file is what it was
\* before the call and <path>.tmp no longer exists.  As a step property:
\* no step of writeParquet but the successful rename touches the target,
\* and the step that returns the error leaves no temporary file.
C4_FailedWriteLeavesNoTrace ==
  [][(ipc \in {"create", "write", "wclose", "fclose", "rename"} =>
        LET failed == ipc' = "station" /\ log' = Append(log, LogLine("ERROR", CurStation))
            tmp == TmpPath(wpath)
        IN /\ (failed \/ ipc # "rename") =>
                (/\ dir'[wpath] = dir[wpath]
                 /\ dir[wpath] # NoInode => inodes'[dir[wpath]] = inodes[dir[wpath]])
           /\ failed => dir'[tmp] = NoInode)]_vars

\* C5: in a cycle whose directory exists, every named station is tried
\* and logged exactly once, a failed fetch as one WARN; each station whose
\* fetch gave rows ends either with one ERROR (its write failed) or with
\* its file written, whatever happened to the stations around it.
C5_FailureIsolated ==
  (ipc = "cycle_done" /\ si > 0) =>
    LET nb == SelectSeq([i \in 1..Len(stations) |-> i],
                        LAMBDA i : TrimSpace(stations[i]) # <<>>)
    IN /\ Len(log) = Len(nb)
       /\ \A k \in 1..Len(nb) :
            LET s == TrimSpace(stations[nb[k]])
                o == net[nb[k]]
                failedFetch == o.kind # "ok"
                noRows == o.kind = "ok" /\ o.doc = "none"
            IN /\ o # NotAsked
               /\ failedFetch => log[k] = LogLine("WARN", s)
               /\ noRows => log[k] = LogLine("INFO", s)
               /\ (~failedFetch /\ ~noRows) =>
                    \/ log[k] = LogLine("ERROR", s)
                    \/ /\ log[k] = LogLine("WROTE", PathOf(s))
                       /\ dir[PathOf(s)] # NoInode
                       /\ inodes[dir[PathOf(s)]].complete

\* A station failed and a later one was still written, or the other way
\* round.
C5_Witness ==
  /\ ipc = "cycle_done"
  /\ Len(log) = 2
  /\ \/ log[1].lvl \in {"WARN", "ERROR"} /\ log[2].lvl = "WROTE"
     \/ log[1].lvl = "WROTE" /\ log[2].lvl \in {"WARN", "ERROR"}
  /\ cycles = MaxCycles

\* C6 as stated: after a cycle, a station whose fetch succeeded and whose
\* write did not fail has exactly the records parsed in that cycle in its
\* file.
C6_FileHoldsCycleRecords ==
  (ipc = "cycle_done" /\ si > 0) =>
    \A i \in 1..Len(stations) :
      LET s == TrimSpace(stations[i])
          later == \E j \in (i + 1)..Len(stations) :
                     PathOf(TrimSpace(stations[j])) = PathOf(s)
      IN (s # <<>> /\ net[i].kind = "ok" /\ ~later
          /\ \A k \in 1..Len(log) : log[k] # LogLine("ERROR", s)) =>
           LET parsed == parseNdbcStdMet(s, ResponseBody[net[i].doc], FetchCap)
           IN IF dir[PathOf(s)] = NoInode THEN parsed = <<>>
              ELSE inodes[dir[PathOf(s)]].rows = parsed

\* C6 amended: ... whose fetch succeeded with at least one record ...
C6_FileHoldsCycleRecordsIfAny ==
  (ipc = "cycle_done" /\ si > 0) =>
    \A i \in 1..Len(stations) :
      LET s == TrimSpace(stations[i])
          later == \E j \in (i + 1)..Len(stations) :
                     PathOf(TrimSpace(stations[j])) = PathOf(s)
      IN (s # <<>> /\ net[i].kind = "ok" /\ ~later
          /\ \A k \in 1..Len(log) : log[k] # LogLine("ERROR", s)) =>
           LET parsed == parseNdbcStdMet(s, ResponseBody[net[i].doc], FetchCap)
           IN parsed # <<>> =>
                /\ dir[PathOf(s)] # NoInode
                /\ inodes[dir[PathOf(s)]] = [rows |-> parsed, complete |-> TRUE]

\* SANF1's file, left by an earlier run with document A, has been
\* replaced by the records of document B.
C6_Witness ==
  /\ ipc = "cycle_done"
  /\ si > 0
  /\ \E i \in 1..Len(stations) :
       /\ TrimSpace(stations[i]) = StationSANF1
       /\ net[i] = [kind |-> "ok", code |-> HttpOK, doc |-> "B"]
       /\ dir[PathOf(StationSANF1)] # NoInode
       /\ Len(inodes[dir[PathOf(StationSANF1)]].rows) = 2

\* C7: with a refresh interval of zero or less, runOnce is entered once,
\* the process never sleeps, and it has run exactly one cycle when it
\* exits.
C7_OneShotRunsOnce ==
  mins <= 0 =>
    /\ cycles <= 1
    /\ ipc # "sleep"
    /\ ipc = "exited" => cycles = 1

C7_Witness == mins <= 0 /\ ipc = "exited" /\ cycles = 1

(***************************************************************************)
(* Properties of go-source beside a running go-ingest (StreamSpec)         *)
(***************************************************************************)

\* C3: the reader never lists or opens a temporary file; the file it has
\* open is complete and is not the one being written; and what it has
\* decoded when it reaches the end is one whole version of the file.
C3_ReaderSeesWholeFile ==
  /\ \A k \in 1..Len(matches) : ~HasSuffix(matches[k], TmpSuffix)
  /\ rfd # NoInode =>
       /\ inodes[rfd].complete
       /\ rfd # wfd
       /\ \A n \in DOMAIN dir : HasSuffix(n, TmpSuffix) => dir[n] # rfd
       /\ all = SubSeq(inodes[rfd].rows, 1, Len(all))
  /\ spc = "emit" =>
       \E k \in DOMAIN ResponseBody :
         \E s \in {StationSANF1, StationKYWF1} :
           /\ PathOf(s) = matches[mi]
           /\ all = parseNdbcStdMet(s, ResponseBody[k], FetchCap)
           /\ all # <<>>

\* The reader still holds the previous file while its name already leads
\* to the new one.
C3_Witness ==
  /\ rfd # NoInode
  /\ dir[matches[mi]] # NoInode
  /\ dir[matches[mi]] # rfd
  /\ inodes[dir[matches[mi]]].rows # inodes[rfd].rows

C10_OneBatchPerDecodedFile ==
  (spc = "done" /\ status = HttpOK) =>
    LET batches == SelectSeq(resp, LAMBDA m : m.kind = "batch")
        decoded == SelectSeq(matches,
                     LAMBDA f : \A k \in 1..Len(slog) : slog[k] # LogLine("WARN", f))
    IN /\ Len(batches) = Len(decoded)
       /\ \A k \in 1..Len(batches) :
            /\ batches[k].rec.nrows > 0
            /\ \A j \in 1..batches[k].rec.nrows :
                 batches[k].rec.station_id[j] \o LatestSuffix = decoded[k]

\* C10 amended: ... that decoded without error and whose batch was
\* written without error.
C10_OneBatchPerDecodedWrittenFile ==
  (spc = "done" /\ status = HttpOK) =>
    LET batches == SelectSeq(resp, LAMBDA m : m.kind = "batch")
        sent == SelectSeq(matches,
                  LAMBDA f : \A k \in 1..Len(slog) :
                               /\ slog[k] # LogLine("WARN", f)
                               /\ slog[k] # LogLine("ERROR", f))
    IN /\ Len(batches) = Len(sent)
       /\ \A k \in 1..Len(batches) :
            /\ batches[k].rec.nrows > 0
            /\ \A j \in 1..batches[k].rec.nrows :
                 batches[k].rec.station_id[j] \o LatestSuffix = sent[k]

\* The first of two files failed to decode and the second one's batch is
\* in the response.
C10_Witness ==
  /\ spc = "done"
  /\ status = HttpOK
  /\ Len(matches) = 2
  /\ \E k \in 1..Len(slog) : slog[k] = LogLine("WARN", matches[1])
  /\ Len(resp) = 3
  /\ resp[2].kind = "batch"
  /\ resp[2].rec.station_id[1] \o LatestSuffix = matches[2]

====
